---- MODULE Spec2Model ----
(***************************************************************************)
(* SecureRestApi: registration, login, bearer tokens and the authorization *)
(* gate of /api/auth/me, modelled from the Go sources.                     *)
(*                                                                         *)
(* Time is counted in ticks, TicksPerSecond ticks to the second, so that   *)
(* the truncation of JWT dates to whole seconds is visible.  Passwords are *)
(* byte strings (sequences of byte values); e-mails are strings.           *)
(* HMAC and bcrypt are modelled as ideal primitives: a signature records   *)
(* the key and the text it was made over, a bcrypt digest records the key  *)
(* material bcrypt feeds to Blowfish together with the salt and the cost.  *)
(***************************************************************************)
EXTENDS Integers, Sequences, FiniteSets, TLC

(* ------------------------------ bounds --------------------------------- *)

\* The clock is sampled around multiples 0..MaxLifetimes of the token lifetime.
MaxLifetimes == 1

\* Number of handed-out tokens the model keeps track of.
MaxIssued == 2

(* ------------------------- program constants --------------------------- *)

\* Resolution of the model clock (ticks per second).
TicksPerSecond == 2

Hour == 3600 * TicksPerSecond

\* jwtDuration := 24 * time.Hour
Duration == 24 * Hour

\* getEnv("JWT_SECRET", ...) and getEnv("JWT_ISSUER", ...)
SecretKey == "your-super-secret-key-change-this-in-production"

Issuer == "secure-rest-api"

\* bcrypt.DefaultCost
DefaultCost == 10

\* bcrypt.GenerateFromPassword refuses passwords longer than this many bytes.
BcryptMaxLen == 72

\* Blowfish's key schedule reads 18 P-array words of 4 bytes from the key.
BlowfishKeyBytes == 18 * 4

(* --------------------------- domain errors ----------------------------- *)

ErrInvalidCredentials == "ErrInvalidCredentials"

ErrUserAlreadyExists == "ErrUserAlreadyExists"

ErrUserNotFound == "ErrUserNotFound"

\* Errors of the libraries; none of them is a domain error.
ErrPasswordTooLong == "bcrypt.ErrPasswordTooLong"

ErrMismatchedHashAndPassword == "bcrypt.ErrMismatchedHashAndPassword"

ErrHashTooShort == "bcrypt.ErrHashTooShort"

ErrTokenMalformed == "jwt.ErrTokenMalformed"

ErrTokenUnverifiable == "jwt.ErrTokenUnverifiable"

ErrTokenSignatureInvalid == "jwt.ErrTokenSignatureInvalid"

ErrTokenExpired == "jwt.ErrTokenExpired"

ErrUniqueEmail == "UNIQUE constraint failed: users.email"

\* Failures of the environment: the entropy source, the database, the signer.
ErrRandRead == "crypto/rand: read error"

ErrDatabase == "sql: database is closed"

ErrSigning == "jwt: signing error"

\* What fails while a request is served: nothing, the read of the entropy
\* source in bcrypt, db.Exec, db.QueryRow(...).Scan, or SignedString.
NoFault == "none"

Faults == {NoFault, "rand", "exec", "query", "sign"}

\* The failures that a registration, a login and a request to /api/auth/me
\* can meet: the calls each of them makes.
RegisterFaults == {NoFault, "rand", "exec", "sign"}

LoginFaults == {NoFault, "query", "sign"}

MeFaults == {NoFault, "query"}

Nil == "nil"

\* err.Error() of a domain error, as a response message.
ErrorText(err) == <<"Error()", err>>

(* ------------------------------ inputs --------------------------------- *)

Emails == {"", "a@x.com", "b@x.com"}

PwShort == <<1>>

PwMax == [i \in 1..BcryptMaxLen |-> 2]

PwOver == [i \in 1..(BcryptMaxLen + 1) |-> 2]

\* The empty password, a short one, one of exactly 72 bytes and that one
\* extended by a 73rd byte.
Passwords == {<< >>, PwShort, PwMax, PwOver}

\* The salts bcrypt may draw from the entropy source.
Salts == {"salt1", "salt2"}

\* The clients that may each have a Register call in flight.
Clients == {"c1", "c2"}

(* --------------------- PasswordService (bcrypt) ------------------------ *)

\* The key bytes Blowfish's key schedule consumes: the password followed by
\* a NUL byte, repeated cyclically, for 72 bytes.
BcryptKey(password) ==
    LET ckey == Append(password, 0)
    IN  [i \in 1..BlowfishKeyBytes |-> ckey[((i - 1) % Len(ckey)) + 1]]

Bcrypt(password, cost, salt) ==
    [cost |-> cost, salt |-> salt, digest |-> BcryptKey(password)]

\* No salt: the read of the entropy source failed.
NoSalt == ""

GenerateFromPassword(password, cost, salt) ==
    IF Len(password) > BcryptMaxLen
    THEN [err |-> ErrPasswordTooLong, hash |-> << >>]
    ELSE IF salt = NoSalt
    THEN [err |-> ErrRandRead, hash |-> << >>]
    ELSE [err |-> Nil, hash |-> Bcrypt(password, cost, salt)]

IsBcryptHash(h) == DOMAIN h = {"cost", "salt", "digest"}

CompareHashAndPassword(hashedPassword, password) ==
    IF ~IsBcryptHash(hashedPassword) THEN ErrHashTooShort
    ELSE IF Bcrypt(password, hashedPassword.cost, hashedPassword.salt) = hashedPassword
         THEN Nil
         ELSE ErrMismatchedHashAndPassword

\* PasswordService.Hash; salt is the salt bcrypt drew.
Hash(password, salt) == GenerateFromPassword(password, DefaultCost, salt)

\* PasswordService.Verify
Verify(hashedPassword, password) == CompareHashAndPassword(hashedPassword, password)

(* -------------------------- JWTService --------------------------------- *)

HMACAlgs == {"HS256", "HS384", "HS512"}

\* jwt.NewNumericDate truncates a time to jwt.TimePrecision, one second.
NewNumericDate(t) == t - (t % TicksPerSecond)

\* An ideal MAC: the signature names the key and the signed text.
HMACSign(alg, key, claims) == [key |-> key, alg |-> alg, claims |-> claims]

NoSignature == [key |-> "", alg |-> "", claims |-> << >>]

MakeClaims(userID, email, issuer, iat, exp) ==
    [UserID |-> userID, Email |-> email, Issuer |-> issuer,
     IssuedAt |-> iat, ExpiresAt |-> exp]

\* GenerateToken with ExpiresAt set to now in place of now.Add(s.duration).
GenerateTokenNoLifetime(userID, email, t) ==
    LET claims == MakeClaims(userID, email, Issuer,
                             NewNumericDate(t), NewNumericDate(t))
    IN  [kind |-> "jwt", alg |-> "HS256", claims |-> claims,
         sig |-> HMACSign("HS256", SecretKey, claims)]

\* JWTService.GenerateToken at time t (time.Now()).
GenerateToken(userID, email, t) ==
    LET claims == MakeClaims(userID, email, Issuer,
                             NewNumericDate(t), NewNumericDate(t + Duration))
    IN  [kind |-> "jwt", alg |-> "HS256", claims |-> claims,
         sig |-> HMACSign("HS256", SecretKey, claims)]

\* The empty token string returned with an error.
NoToken == [kind |-> "none"]

\* GenerateToken with its error: token.SignedString may fail.
IssueToken(userID, email, t, fault) ==
    IF fault = "sign"
    THEN [err |-> ErrSigning, token |-> NoToken]
    ELSE [err |-> Nil, token |-> GenerateToken(userID, email, t)]

\* The key function given to jwt.ParseWithClaims.
Keyfunc(token) ==
    IF token.alg \notin HMACAlgs
    THEN [err |-> ErrTokenUnverifiable, key |-> ""]
    ELSE [err |-> Nil, key |-> SecretKey]

\* ValidateToken that does not look at ExpiresAt.
ValidateTokenNoExpiry(tokenString, t) ==
    IF Len(tokenString) # 1 \/ tokenString[1].kind # "jwt"
    THEN [err |-> ErrTokenMalformed, claims |-> << >>]
    ELSE LET token == tokenString[1]
             k == Keyfunc(token)
         IN  IF k.err # Nil
             THEN [err |-> k.err, claims |-> << >>]
             ELSE IF token.sig # HMACSign(token.alg, k.key, token.claims)
             THEN [err |-> ErrTokenSignatureInvalid, claims |-> << >>]
             ELSE [err |-> Nil, claims |-> token.claims]

\* ValidateToken that compares the clock with IssuedAt in place of ExpiresAt.
ValidateTokenExpiresAtIssue(tokenString, t) ==
    IF Len(tokenString) # 1 \/ tokenString[1].kind # "jwt"
    THEN [err |-> ErrTokenMalformed, claims |-> << >>]
    ELSE LET token == tokenString[1]
             k == Keyfunc(token)
         IN  IF k.err # Nil
             THEN [err |-> k.err, claims |-> << >>]
             ELSE IF token.sig # HMACSign(token.alg, k.key, token.claims)
             THEN [err |-> ErrTokenSignatureInvalid, claims |-> << >>]
             ELSE IF ~(t < token.claims.IssuedAt)
             THEN [err |-> ErrTokenExpired, claims |-> << >>]
             ELSE [err |-> Nil, claims |-> token.claims]

\* ValidateToken that parses with jwt.WithIssuer(s.issuer).
ValidateTokenWithIssuer(tokenString, t) ==
    IF Len(tokenString) # 1 \/ tokenString[1].kind # "jwt"
    THEN [err |-> ErrTokenMalformed, claims |-> << >>]
    ELSE LET token == tokenString[1]
             k == Keyfunc(token)
         IN  IF k.err # Nil
             THEN [err |-> k.err, claims |-> << >>]
             ELSE IF token.sig # HMACSign(token.alg, k.key, token.claims)
             THEN [err |-> ErrTokenSignatureInvalid, claims |-> << >>]
             ELSE IF ~(t < token.claims.ExpiresAt)
             THEN [err |-> ErrTokenExpired, claims |-> << >>]
             ELSE IF token.claims.Issuer # Issuer
             THEN [err |-> "jwt.ErrTokenInvalidIssuer", claims |-> << >>]
             ELSE [err |-> Nil, claims |-> token.claims]

\* ValidateToken that does not verify the signature.
ValidateTokenNoSignature(tokenString, t) ==
    IF Len(tokenString) # 1 \/ tokenString[1].kind # "jwt"
    THEN [err |-> ErrTokenMalformed, claims |-> << >>]
    ELSE LET token == tokenString[1]
             k == Keyfunc(token)
         IN  IF k.err # Nil
             THEN [err |-> k.err, claims |-> << >>]
             ELSE IF ~(t < token.claims.ExpiresAt)
             THEN [err |-> ErrTokenExpired, claims |-> << >>]
             ELSE [err |-> Nil, claims |-> token.claims]

\* JWTService.ValidateToken of the string tokenString (a sequence of header
\* atoms, see below) at time t.
ValidateToken(tokenString, t) ==
    IF Len(tokenString) # 1 \/ tokenString[1].kind # "jwt"
    THEN [err |-> ErrTokenMalformed, claims |-> << >>]
    ELSE LET token == tokenString[1]
             k == Keyfunc(token)
         IN  IF k.err # Nil
             THEN [err |-> k.err, claims |-> << >>]
             ELSE IF token.sig # HMACSign(token.alg, k.key, token.claims)
             THEN [err |-> ErrTokenSignatureInvalid, claims |-> << >>]
             ELSE IF ~(t < token.claims.ExpiresAt)
             THEN [err |-> ErrTokenExpired, claims |-> << >>]
             ELSE [err |-> Nil, claims |-> token.claims]

(* ------------------- users table and repository ------------------------ *)

\* A row of table users.  created_at and updated_at are not modelled.
Row(id, email, passwordHash) == [ID |-> id, Email |-> email, PasswordHash |-> passwordHash]

Max(S) == CHOOSE x \in S : \A y \in S : y <= x

\* The rowid SQLite gives the next inserted row.
NextRowID(table) == IF table = {} THEN 1 ELSE Max({u.ID : u \in table}) + 1

\* db.Exec of the INSERT: one atomic statement; column email is UNIQUE.
ExecInsert(table, email, passwordHash, fault) ==
    IF fault = "exec"
    THEN [err |-> ErrDatabase, id |-> 0, table |-> table]
    ELSE IF \E u \in table : u.Email = email
    THEN [err |-> ErrUniqueEmail, id |-> 0, table |-> table]
    ELSE [err |-> Nil, id |-> NextRowID(table),
          table |-> table \cup {Row(NextRowID(table), email, passwordHash)}]

NoUser == Row(0, "", << >>)

\* Create whose statement reads INSERT OR REPLACE.
CreateReplacing(table, email, passwordHash, fault) ==
    LET r == ExecInsert({u \in table : u.Email # email}, email, passwordHash, fault)
    IN  IF r.err # Nil
        THEN IF r.err = ErrUniqueEmail
             THEN [err |-> ErrUserAlreadyExists, user |-> NoUser, table |-> table]
             ELSE [err |-> r.err, user |-> NoUser, table |-> table]
        ELSE [err |-> Nil, user |-> Row(r.id, email, passwordHash), table |-> r.table]

\* Create that does not read result.LastInsertId.
CreateNoLastInsertId(table, email, passwordHash, fault) ==
    LET r == ExecInsert(table, email, passwordHash, fault)
    IN  IF r.err # Nil
        THEN IF r.err = ErrUniqueEmail
             THEN [err |-> ErrUserAlreadyExists, user |-> NoUser, table |-> r.table]
             ELSE [err |-> r.err, user |-> NoUser, table |-> r.table]
        ELSE [err |-> Nil, user |-> Row(0, email, passwordHash), table |-> r.table]

\* Create without the mapping of the constraint failure to the domain error.
CreateUnmapped(table, email, passwordHash, fault) ==
    LET r == ExecInsert(table, email, passwordHash, fault)
    IN  IF r.err # Nil
        THEN [err |-> r.err, user |-> NoUser, table |-> r.table]
        ELSE [err |-> Nil, user |-> Row(r.id, email, passwordHash), table |-> r.table]

\* SQLiteUserRepository.Create
Create(table, email, passwordHash, fault) ==
    LET r == ExecInsert(table, email, passwordHash, fault)
    IN  IF r.err # Nil
        THEN IF r.err = ErrUniqueEmail
             THEN [err |-> ErrUserAlreadyExists, user |-> NoUser, table |-> r.table]
             ELSE [err |-> r.err, user |-> NoUser, table |-> r.table]
        ELSE [err |-> Nil, user |-> Row(r.id, email, passwordHash), table |-> r.table]

\* SQLiteUserRepository.FindByEmail
FindByEmail(table, email, fault) ==
    IF fault = "query" THEN [err |-> ErrDatabase, user |-> NoUser]
    ELSE IF ~\E u \in table : u.Email = email
    THEN [err |-> ErrUserNotFound, user |-> NoUser]
    ELSE [err |-> Nil, user |-> CHOOSE u \in table : u.Email = email]

\* FindByID whose query has lost its WHERE clause.
FindByIDAnyRow(table, id, fault) ==
    IF fault = "query" THEN [err |-> ErrDatabase, user |-> NoUser]
    ELSE IF table = {}
    THEN [err |-> ErrUserNotFound, user |-> NoUser]
    ELSE [err |-> Nil, user |-> CHOOSE u \in table : \A v \in table : v.ID <= u.ID]

\* SQLiteUserRepository.FindByID
FindByID(table, id, fault) ==
    IF fault = "query" THEN [err |-> ErrDatabase, user |-> NoUser]
    ELSE IF ~\E u \in table : u.ID = id
    THEN [err |-> ErrUserNotFound, user |-> NoUser]
    ELSE [err |-> Nil, user |-> CHOOSE u \in table : u.ID = id]

(* ---------------------------- AuthUseCase ------------------------------ *)

UseCaseError(err) == [err |-> err, Token |-> NoToken, User |-> NoUser]

\* RegisterHash that hands on the password in place of its hash.
RegisterHashPlaintext(req, salt, fault) ==
    IF req.Email = "" \/ req.Password = << >>
    THEN [err |-> ErrInvalidCredentials, hash |-> << >>]
    ELSE [err |-> Hash(req.Password, IF fault = "rand" THEN NoSalt ELSE salt).err,
          hash |-> req.Password]

\* RegisterHash that tests the e-mail only.
RegisterHashEmailOnly(req, salt, fault) ==
    IF req.Email = ""
    THEN [err |-> ErrInvalidCredentials, hash |-> << >>]
    ELSE Hash(req.Password, IF fault = "rand" THEN NoSalt ELSE salt)

\* AuthUseCase.Register up to and including the hashing: the part that
\* touches neither the store nor the clock.
RegisterHash(req, salt, fault) ==
    IF req.Email = "" \/ req.Password = << >>
    THEN [err |-> ErrInvalidCredentials, hash |-> << >>]
    ELSE Hash(req.Password, IF fault = "rand" THEN NoSalt ELSE salt)

\* AuthUseCase.Register from the token issuance on, for the created user.
RegisterToken(user, t, fault) ==
    LET g == IssueToken(user.ID, user.Email, t, fault)
    IN  IF g.err # Nil
        THEN UseCaseError(g.err)
        ELSE [err |-> Nil, Token |-> g.token, User |-> user]

\* Register that removes the created user when the token cannot be issued.
RegisterRollingBack(table, req, salt, t, fault) ==
    LET h == RegisterHash(req, salt, fault)
    IN  IF h.err # Nil
        THEN [err |-> h.err, Token |-> NoToken, User |-> NoUser, table |-> table]
        ELSE LET r == Create(table, req.Email, h.hash, fault)
             IN  IF r.err # Nil
                 THEN [err |-> r.err, Token |-> NoToken, User |-> NoUser,
                       table |-> r.table]
                 ELSE LET g == RegisterToken(r.user, t, fault)
                      IN  [err |-> g.err, Token |-> g.Token, User |-> g.User,
                           table |-> IF g.err # Nil THEN table ELSE r.table]

\* AuthUseCase.Register as one call, against the table, at time t; table is
\* the table it leaves.
Register(table, req, salt, t, fault) ==
    LET h == RegisterHash(req, salt, fault)
    IN  IF h.err # Nil
        THEN [err |-> h.err, Token |-> NoToken, User |-> NoUser, table |-> table]
        ELSE LET r == Create(table, req.Email, h.hash, fault)
             IN  IF r.err # Nil
                 THEN [err |-> r.err, Token |-> NoToken, User |-> NoUser,
                       table |-> r.table]
                 ELSE LET g == RegisterToken(r.user, t, fault)
                      IN  [err |-> g.err, Token |-> g.Token, User |-> g.User,
                           table |-> r.table]

\* Login that issues its token for the request's e-mail and no user ID.
LoginTokenWithoutID(table, req, t, fault) ==
    IF req.Email = "" \/ req.Password = << >>
    THEN UseCaseError(ErrInvalidCredentials)
    ELSE LET f == FindByEmail(table, req.Email, fault)
         IN  IF f.err # Nil
             THEN IF f.err = ErrUserNotFound
                  THEN UseCaseError(ErrInvalidCredentials)
                  ELSE UseCaseError(f.err)
             ELSE IF Verify(f.user.PasswordHash, req.Password) # Nil
             THEN UseCaseError(ErrInvalidCredentials)
             ELSE LET g == IssueToken(0, req.Email, t, fault)
                  IN  IF g.err # Nil
                      THEN UseCaseError(g.err)
                      ELSE [err |-> Nil, Token |-> g.token, User |-> f.user]

\* AuthUseCase.Login against the table, at time t.
Login(table, req, t, fault) ==
    IF req.Email = "" \/ req.Password = << >>
    THEN UseCaseError(ErrInvalidCredentials)
    ELSE LET f == FindByEmail(table, req.Email, fault)
         IN  IF f.err # Nil
             THEN IF f.err = ErrUserNotFound
                  THEN UseCaseError(ErrInvalidCredentials)
                  ELSE UseCaseError(f.err)
             ELSE IF Verify(f.user.PasswordHash, req.Password) # Nil
             THEN UseCaseError(ErrInvalidCredentials)
             ELSE LET g == IssueToken(f.user.ID, f.user.Email, t, fault)
                  IN  IF g.err # Nil
                      THEN UseCaseError(g.err)
                      ELSE [err |-> Nil, Token |-> g.token, User |-> f.user]

\* GetUserByID that hides a missing user as Login does, behind
\* ErrInvalidCredentials.
GetUserByIDHidingNotFound(table, id, fault) ==
    LET f == FindByID(table, id, fault)
    IN  IF f.err = ErrUserNotFound
        THEN [err |-> ErrInvalidCredentials, user |-> NoUser]
        ELSE f

\* AuthUseCase.GetUserByID
GetUserByID(table, id, fault) == FindByID(table, id, fault)

(* ----------------------------- handlers -------------------------------- *)

\* respondWithError
RespondWithError(code, message) == [status |-> code, body |-> [error |-> message]]

\* json.Marshal of a domain.User whose PasswordHash is tagged as a field.
UserJSONWithHash(user) ==
    [id |-> user.ID, email |-> user.Email, password_hash |-> user.PasswordHash]

\* json.Marshal of a domain.User: PasswordHash carries the tag json:"-".
UserJSON(user) == [id |-> user.ID, email |-> user.Email]

\* json.Marshal of an AuthResponse.
AuthResponseJSON(r) == [token |-> r.Token, user |-> UserJSON(r.User)]

\* A request body json.Decode rejects.
BadPayload == [bad |-> TRUE]

\* Handler.Register, the answer to an error of AuthUseCase.Register.
RegisterErrorResponse(err) ==
    CASE err = ErrUserAlreadyExists -> RespondWithError(409, ErrorText(err))
      [] err = ErrInvalidCredentials -> RespondWithError(400, ErrorText(err))
      [] OTHER -> RespondWithError(500, "Internal server error")

\* Handler.Register before the use case is called: the method and the body.
RegisterEarlyResponse(method, payload) ==
    IF method # "POST" THEN RespondWithError(405, "Method not allowed")
    ELSE IF payload = BadPayload THEN RespondWithError(400, "Invalid request payload")
    ELSE [status |-> 0, body |-> << >>]

\* Handler.Register as one call.
HandlerRegister(table, method, payload, salt, t, fault) ==
    LET early == RegisterEarlyResponse(method, payload)
    IN  IF early.status # 0 THEN early
        ELSE LET r == Register(table, payload, salt, t, fault)
             IN  IF r.err # Nil THEN RegisterErrorResponse(r.err)
                 ELSE [status |-> 201, body |-> AuthResponseJSON(r)]

\* Handler.Login answering every error of the use case with 401.
HandlerLoginAllUnauthorized(table, method, payload, t, fault) ==
    IF method # "POST" THEN RespondWithError(405, "Method not allowed")
    ELSE IF payload = BadPayload THEN RespondWithError(400, "Invalid request payload")
    ELSE LET r == Login(table, payload, t, fault)
         IN  IF r.err # Nil
             THEN RespondWithError(401, "Invalid email or password")
             ELSE [status |-> 200, body |-> AuthResponseJSON(r)]

\* Handler.Login
HandlerLogin(table, method, payload, t, fault) ==
    IF method # "POST" THEN RespondWithError(405, "Method not allowed")
    ELSE IF payload = BadPayload THEN RespondWithError(400, "Invalid request payload")
    ELSE LET r == Login(table, payload, t, fault)
         IN  IF r.err # Nil
             THEN IF r.err = ErrInvalidCredentials
                  THEN RespondWithError(401, "Invalid email or password")
                  ELSE RespondWithError(500, "Internal server error")
             ELSE [status |-> 200, body |-> AuthResponseJSON(r)]

\* Handler.Me with the request context ctx.
HandlerMe(table, method, ctx, fault) ==
    IF method # "GET" THEN RespondWithError(405, "Method not allowed")
    ELSE IF "userID" \notin DOMAIN ctx THEN RespondWithError(401, "Unauthorized")
    ELSE LET r == GetUserByID(table, ctx.userID, fault)
         IN  IF r.err # Nil
             THEN IF r.err = ErrUserNotFound
                  THEN RespondWithError(404, "User not found")
                  ELSE RespondWithError(500, "Internal server error")
             ELSE [status |-> 200, body |-> UserJSON(r.user)]

(* --------------------------- middlewares ------------------------------- *)

\* The Authorization header is a sequence of atoms: a space, a word, or a
\* token string (which holds no space).
Space == [kind |-> "sp"]

Word(w) == [kind |-> "word", w |-> w]

RECURSIVE SplitFrom(_, _, _)
\* strings.Split(s, " "): cur is the part being read, i the next position.
SplitFrom(s, i, cur) ==
    IF i > Len(s) THEN <<cur>>
    ELSE IF s[i] = Space THEN <<cur>> \o SplitFrom(s, i + 1, << >>)
    ELSE SplitFrom(s, i + 1, Append(cur, s[i]))

Split(s) == SplitFrom(s, 1, << >>)

\* AuthMiddleware without the comparison of the scheme with "Bearer".
AuthMiddlewareAnyScheme(authHeader, t) ==
    IF authHeader = << >>
    THEN [pass |-> FALSE, validated |-> FALSE, ctx |-> << >>,
          resp |-> RespondWithError(401, "Missing authorization header")]
    ELSE LET parts == Split(authHeader)
         IN  IF Len(parts) # 2
             THEN [pass |-> FALSE, validated |-> FALSE, ctx |-> << >>,
                   resp |-> RespondWithError(401, "Invalid authorization header format")]
             ELSE LET v == ValidateToken(parts[2], t)
                  IN  IF v.err # Nil
                      THEN [pass |-> FALSE, validated |-> TRUE, ctx |-> << >>,
                            resp |-> RespondWithError(401, "Invalid or expired token")]
                      ELSE [pass |-> TRUE, validated |-> TRUE,
                            ctx |-> [userID |-> v.claims.UserID, email |-> v.claims.Email],
                            resp |-> [status |-> 0, body |-> << >>]]

\* AuthMiddleware that compares the scheme without regard to case.
AuthMiddlewareAnyCase(authHeader, t) ==
    IF authHeader = << >>
    THEN [pass |-> FALSE, validated |-> FALSE, ctx |-> << >>,
          resp |-> RespondWithError(401, "Missing authorization header")]
    ELSE LET parts == Split(authHeader)
         IN  IF Len(parts) # 2
                  \/ parts[1] \notin {<<Word("Bearer")>>, <<Word("bearer")>>}
             THEN [pass |-> FALSE, validated |-> FALSE, ctx |-> << >>,
                   resp |-> RespondWithError(401, "Invalid authorization header format")]
             ELSE LET v == ValidateToken(parts[2], t)
                  IN  IF v.err # Nil
                      THEN [pass |-> FALSE, validated |-> TRUE, ctx |-> << >>,
                            resp |-> RespondWithError(401, "Invalid or expired token")]
                      ELSE [pass |-> TRUE, validated |-> TRUE,
                            ctx |-> [userID |-> v.claims.UserID, email |-> v.claims.Email],
                            resp |-> [status |-> 0, body |-> << >>]]

\* AuthMiddleware that tells the caller when the token has expired.
AuthMiddlewareTellingExpiry(authHeader, t) ==
    IF authHeader = << >>
    THEN [pass |-> FALSE, validated |-> FALSE, ctx |-> << >>,
          resp |-> RespondWithError(401, "Missing authorization header")]
    ELSE LET parts == Split(authHeader)
         IN  IF Len(parts) # 2 \/ parts[1] # <<Word("Bearer")>>
             THEN [pass |-> FALSE, validated |-> FALSE, ctx |-> << >>,
                   resp |-> RespondWithError(401, "Invalid authorization header format")]
             ELSE LET v == ValidateToken(parts[2], t)
                  IN  IF v.err # Nil
                      THEN [pass |-> FALSE, validated |-> TRUE, ctx |-> << >>,
                            resp |-> IF v.err = ErrTokenExpired
                                     THEN RespondWithError(401, "Token expired")
                                     ELSE RespondWithError(401, "Invalid or expired token")]
                      ELSE [pass |-> TRUE, validated |-> TRUE,
                            ctx |-> [userID |-> v.claims.UserID, email |-> v.claims.Email],
                            resp |-> [status |-> 0, body |-> << >>]]

\* AuthMiddleware: pass tells whether next.ServeHTTP is called, validated
\* whether ValidateToken was called.
AuthMiddleware(authHeader, t) ==
    IF authHeader = << >>
    THEN [pass |-> FALSE, validated |-> FALSE, ctx |-> << >>,
          resp |-> RespondWithError(401, "Missing authorization header")]
    ELSE LET parts == Split(authHeader)
         IN  IF Len(parts) # 2 \/ parts[1] # <<Word("Bearer")>>
             THEN [pass |-> FALSE, validated |-> FALSE, ctx |-> << >>,
                   resp |-> RespondWithError(401, "Invalid authorization header format")]
             ELSE LET v == ValidateToken(parts[2], t)
                  IN  IF v.err # Nil
                      THEN [pass |-> FALSE, validated |-> TRUE, ctx |-> << >>,
                            resp |-> RespondWithError(401, "Invalid or expired token")]
                      ELSE [pass |-> TRUE, validated |-> TRUE,
                            ctx |-> [userID |-> v.claims.UserID, email |-> v.claims.Email],
                            resp |-> [status |-> 0, body |-> << >>]]

\* The chain of route /api/auth/me: CORSMiddleware, LoggingMiddleware,
\* AuthMiddleware, Handler.Me.  invoked tells whether Handler.Me ran.
ServeMe(table, method, authHeader, t, fault) ==
    IF method = "OPTIONS"
    THEN [status |-> 200, body |-> << >>, invoked |-> FALSE, validated |-> FALSE,
          ctx |-> << >>]
    ELSE LET a == AuthMiddleware(authHeader, t)
         IN  IF ~a.pass
             THEN [status |-> a.resp.status, body |-> a.resp.body, invoked |-> FALSE,
                   validated |-> a.validated, ctx |-> << >>]
             ELSE LET m == HandlerMe(table, method, a.ctx, fault)
                  IN  [status |-> m.status, body |-> m.body, invoked |-> TRUE,
                       validated |-> TRUE, ctx |-> a.ctx]

(* ------------------------------ requests ------------------------------- *)

OtherKey == "attacker-key"

Payloads == [Email : Emails, Password : Passwords]

\* The bodies and methods sent to /api/auth/register and /api/auth/login.
AuthRequests ==
    {<<"POST", p>> : p \in Payloads \cup {BadPayload}}
        \cup {<<"GET", [Email |-> "a@x.com", Password |-> PwShort]>>}

\* Claims an attacker puts in a token of their own making: a user ID, an
\* e-mail and an expiry beyond every clock value of the model.
CraftedClaims(issuer) ==
    MakeClaims(1, "a@x.com", issuer, 0, (MaxLifetimes + 2) * Duration)

\* Signed HS256, but with another key.
WrongKeyToken ==
    [kind |-> "jwt", alg |-> "HS256", claims |-> CraftedClaims(Issuer),
     sig |-> HMACSign("HS256", OtherKey, CraftedClaims(Issuer))]

\* alg "none": no signature at all.
NoneToken ==
    [kind |-> "jwt", alg |-> "none", claims |-> CraftedClaims(Issuer),
     sig |-> NoSignature]

\* An RS256 token made with the attacker's key pair.
RSAToken ==
    [kind |-> "jwt", alg |-> "RS256", claims |-> CraftedClaims(Issuer),
     sig |-> HMACSign("RS256", OtherKey, CraftedClaims(Issuer))]

\* A token of another service that holds the same secret key.
SameKeyToken ==
    [kind |-> "jwt", alg |-> "HS512", claims |-> CraftedClaims("other-service"),
     sig |-> HMACSign("HS512", SecretKey, CraftedClaims("other-service"))]

\* An issued token whose expiry was rewritten, the signature left as it was.
Redated(tk) == [tk EXCEPT !.claims.ExpiresAt = @ + Duration]

\* An issued token whose user ID was rewritten, the signature left as it was.
Reowned(tk) == [tk EXCEPT !.claims.UserID = @ + 1]

ForgedTokens(tokens) ==
    {WrongKeyToken, NoneToken, RSAToken}
        \cup {Redated(tk) : tk \in tokens} \cup {Reowned(tk) : tk \in tokens}

Bearer(tokenString) == <<Word("Bearer"), Space>> \o tokenString

\* Authorization headers that do not have the shape "Bearer <token>".
MalformedHeaders(tokens) ==
    {<<Word("Bearer")>>, <<Word("Basic"), Space, Word("dXNlcjpwdw")>>}
        \cup {<<Word("bearer"), Space, tk>> : tk \in tokens}
        \cup {<<Word("Bearer"), Space, Space, tk>> : tk \in tokens}

\* Headers of the shape "Bearer <token>", <token> possibly empty or garbage.
BearerHeaders(tokens) ==
    {Bearer(<< >>), Bearer(<<Word("invalidtoken123")>>), Bearer(<<SameKeyToken>>)}
        \cup {Bearer(<<tk>>) : tk \in tokens \cup ForgedTokens(tokens)}

\* The requests sent to /api/auth/me, given the tokens handed out so far.
MeRequests(tokens) ==
    {<<"GET", h>> : h \in {<< >>} \cup MalformedHeaders(tokens) \cup BearerHeaders(tokens)}
        \cup {<<"OPTIONS", << >> >>}
        \cup {<<"POST", Bearer(<<tk>>)>> : tk \in tokens}

\* The instants at which the clock is read: each multiple of the token
\* lifetime, and the last tick of the second that starts an hour after the
\* first of them.
TimePoints ==
    {m * Duration : m \in 0..MaxLifetimes} \cup {Hour + TicksPerSecond - 1}

\* The handed-out tokens kept track of, after token was handed out.
Track(tokens, token) ==
    IF Cardinality(tokens \cup {token}) <= MaxIssued
    THEN tokens \cup {token}
    ELSE tokens

(* ------------------------------- state --------------------------------- *)

VARIABLES
    users,      \* table users of the database
    now,        \* the clock, in ticks
    issued,     \* the tokens handed out in responses so far (those kept track of)
    reg,        \* per client, the Register call in flight
    succ,       \* the Register calls that returned success: e-mail, password, ID
    resp        \* the response being sent, with the request it answers and
                \* the table and the tokens as they were before the step

vars == <<users, now, issued, reg, succ, resp>>

IdleReg == [pc |-> "idle", payload |-> BadPayload, hash |-> << >>, user |-> NoUser]

NoResp ==
    [op |-> "none", method |-> "", payload |-> BadPayload,
     header |-> << >>, fault |-> NoFault, err |-> Nil, status |-> 0,
     body |-> << >>, invoked |-> FALSE, validated |-> FALSE, ctx |-> << >>,
     users0 |-> {}, issued0 |-> {}]

Init ==
    /\ users = {}
    /\ now = 0
    /\ issued = {}
    /\ reg = [c \in Clients |-> IdleReg]
    /\ succ = {}
    /\ resp = NoResp

\* The previous response has been handed to its client.
Ready == resp = NoResp

RegisterResp(method, payload, fault, err, r) ==
    [op |-> "register", method |-> method, payload |-> payload,
     header |-> << >>, fault |-> fault, err |-> err,
     status |-> r.status, body |-> r.body,
     invoked |-> err # "not called", validated |-> FALSE, ctx |-> << >>,
     users0 |-> users, issued0 |-> issued]

\* The record of a Register call that returned success.
Success(payload, user) ==
    [email |-> payload.Email, password |-> payload.Password, id |-> user.id]

\* POST /api/auth/register handled without interruption.
DoRegister(method, payload, salt, fault) ==
    /\ Ready
    /\ LET h == HandlerRegister(users, method, payload, salt, now, fault)
           called == method = "POST" /\ payload # BadPayload
           r == Register(users, payload, salt, now, fault)
       IN  /\ resp' = RegisterResp(method, payload, fault,
                                   IF called THEN r.err ELSE "not called", h)
           /\ users' = IF called THEN r.table ELSE users
           /\ issued' = IF h.status = 201 THEN Track(issued, h.body.token) ELSE issued
           /\ succ' = IF h.status = 201
                      THEN succ \cup {Success(payload, h.body.user)}
                      ELSE succ
           /\ UNCHANGED <<now, reg>>

\* Handler.Register and AuthUseCase.Register up to the hashing, for client c
\* (the steps of a Register call that runs concurrently with others).
RegisterBegin(c, method, payload, salt) ==
    /\ Ready
    /\ reg[c].pc = "idle"
    /\ LET early == RegisterEarlyResponse(method, payload)
       IN  IF early.status # 0
           THEN /\ resp' = RegisterResp(method, payload, NoFault, "not called", early)
                /\ reg' = reg
           ELSE LET h == RegisterHash(payload, salt, NoFault)
                IN  IF h.err # Nil
                    THEN /\ resp' = RegisterResp(method, payload, NoFault, h.err,
                                                 RegisterErrorResponse(h.err))
                         /\ reg' = reg
                    ELSE /\ reg' = [reg EXCEPT ![c] =
                                      [pc |-> "hashed", payload |-> payload,
                                       hash |-> h.hash, user |-> NoUser]]
                         /\ resp' = resp
    /\ UNCHANGED <<users, now, issued, succ>>

\* uc.userRepo.Create: the INSERT, one atomic step on the table.
RegisterCreate(c) ==
    /\ Ready
    /\ reg[c].pc = "hashed"
    /\ LET r == Create(users, reg[c].payload.Email, reg[c].hash, NoFault)
       IN  IF r.err # Nil
           THEN /\ resp' = RegisterResp("POST", reg[c].payload, NoFault, r.err,
                                        RegisterErrorResponse(r.err))
                /\ reg' = [reg EXCEPT ![c] = IdleReg]
                /\ users' = users
           ELSE /\ users' = r.table
                /\ reg' = [reg EXCEPT ![c].pc = "created", ![c].user = r.user]
                /\ resp' = resp
    /\ UNCHANGED <<now, issued, succ>>

\* uc.jwtService.GenerateToken and the 201 response.
RegisterFinish(c) ==
    /\ Ready
    /\ reg[c].pc = "created"
    /\ LET r == RegisterToken(reg[c].user, now, NoFault)
       IN  /\ resp' = RegisterResp("POST", reg[c].payload, NoFault, Nil,
                                   [status |-> 201, body |-> AuthResponseJSON(r)])
           /\ issued' = Track(issued, r.Token)
           /\ succ' = succ \cup {Success(reg[c].payload, UserJSON(r.User))}
    /\ reg' = [reg EXCEPT ![c] = IdleReg]
    /\ UNCHANGED <<users, now>>

\* A login that, when it succeeds, stores a fresh hash of the password.
DoLoginRehashing(method, payload, fault) ==
    /\ Ready
    /\ LET h == HandlerLogin(users, method, payload, now, fault)
           called == method = "POST" /\ payload # BadPayload
           err == IF called THEN Login(users, payload, now, fault).err
                  ELSE "not called"
       IN  /\ resp' = [op |-> "login", method |-> method, payload |-> payload,
                       header |-> << >>, fault |-> fault, err |-> err,
                       status |-> h.status, body |-> h.body,
                       invoked |-> called, validated |-> FALSE, ctx |-> << >>,
                       users0 |-> users, issued0 |-> issued]
           /\ issued' = IF h.status = 200 THEN Track(issued, h.body.token) ELSE issued
           /\ users' = IF h.status = 200 /\ Len(payload.Password) <= BcryptMaxLen
                       THEN {u \in users : u.Email # payload.Email}
                                \cup {Row(h.body.user.id, payload.Email,
                                          Hash(payload.Password, "salt2").hash)}
                       ELSE users
           /\ UNCHANGED <<now, reg, succ>>

\* POST /api/auth/login: one read of the table.
DoLogin(method, payload, fault) ==
    /\ Ready
    /\ LET h == HandlerLogin(users, method, payload, now, fault)
           called == method = "POST" /\ payload # BadPayload
           err == IF called THEN Login(users, payload, now, fault).err
                  ELSE "not called"
       IN  /\ resp' = [op |-> "login", method |-> method, payload |-> payload,
                       header |-> << >>, fault |-> fault, err |-> err,
                       status |-> h.status, body |-> h.body,
                       invoked |-> called, validated |-> FALSE, ctx |-> << >>,
                       users0 |-> users, issued0 |-> issued]
           /\ issued' = IF h.status = 200 THEN Track(issued, h.body.token) ELSE issued
           /\ UNCHANGED <<users, now, reg, succ>>

\* A request to /api/auth/me.
DoMe(method, header, fault) ==
    /\ Ready
    /\ LET r == ServeMe(users, method, header, now, fault)
       IN  /\ resp' = [op |-> "me", method |-> method, payload |-> BadPayload,
                       header |-> header, fault |-> fault, err |-> Nil,
                       status |-> r.status, body |-> r.body,
                       invoked |-> r.invoked, validated |-> r.validated,
                       ctx |-> r.ctx, users0 |-> users, issued0 |-> issued]
           /\ UNCHANGED <<users, now, issued, reg, succ>>

\* Time passes.
AdvanceClock(t) ==
    /\ Ready
    /\ t > now
    /\ now' = t
    /\ UNCHANGED <<users, issued, reg, succ, resp>>

\* The response is handed to the client: resp shows a response only in the
\* state right after the step that sent it.
Deliver ==
    /\ resp # NoResp
    /\ resp' = NoResp
    /\ UNCHANGED <<users, now, issued, reg, succ>>

Next ==
    \/ \E q \in AuthRequests, salt \in Salts : DoRegister(q[1], q[2], salt, NoFault)
    \/ \E q \in AuthRequests : DoLogin(q[1], q[2], NoFault)
    \/ \E q \in MeRequests(issued) : DoMe(q[1], q[2], NoFault)
    \/ \E t \in TimePoints : AdvanceClock(t)
    \/ Deliver

Spec == Init /\ [][Next]_vars

\* The requests served while the entropy source, the database or the signer
\* may fail.
NextFaults ==
    \/ \E q \in AuthRequests, salt \in Salts, fault \in RegisterFaults :
          DoRegister(q[1], q[2], salt, fault)
    \/ \E q \in AuthRequests, fault \in LoginFaults : DoLogin(q[1], q[2], fault)
    \/ \E q \in MeRequests(issued), fault \in MeFaults : DoMe(q[1], q[2], fault)
    \/ Deliver

SpecFaults == Init /\ [][NextFaults]_vars

\* Register calls of several clients interleaved at their accesses to the
\* store.
NextConcurrent ==
    \/ \E c \in Clients, q \in AuthRequests, salt \in Salts :
          RegisterBegin(c, q[1], q[2], salt)
    \/ \E c \in Clients : RegisterCreate(c)
    \/ \E c \in Clients : RegisterFinish(c)
    \/ Deliver

(* ------------------------------ properties ----------------------------- *)

EmailsOf(table) == {u.Email : u \in table}

NonEmpty(payload) == payload.Email # "" /\ payload.Password # << >>

\* The use case Login was called for the response being sent.
LoginCall == resp.op = "login" /\ resp.invoked

\* The use case Register was called for the response being sent.
RegisterCall == resp.op = "register" /\ resp.invoked

\* A Register call with this e-mail and this password returned success.
RegisteredWith(email, password) ==
    \E s \in succ : s.email = email /\ s.password = password

\* C1: a Login with non-empty fields for an e-mail that is not registered,
\* and a Login for a registered e-mail with a password other than the one
\* given at registration, both return ErrInvalidCredentials and are answered
\* 401 with the same body.
C1_UnknownUserAndWrongPasswordAlike ==
    (/\ LoginCall
     /\ NonEmpty(resp.payload)
     /\ ~RegisteredWith(resp.payload.Email, resp.payload.Password))
    => /\ resp.err = ErrInvalidCredentials
       /\ resp.status = 401
       /\ resp.body = [error |-> "Invalid email or password"]

\* The header reads "Bearer <token>": the word Bearer, one space, and a
\* token string without a space.
HasBearerShape(h) ==
    /\ Len(h) >= 2
    /\ h[1] = Word("Bearer")
    /\ h[2] = Space
    /\ \A i \in 3..Len(h) : h[i] # Space

\* The header reads "Bearer <token>" and ValidateToken accepts <token> at t.
Accepted(h, t) ==
    HasBearerShape(h) /\ ValidateToken(SubSeq(h, 3, Len(h)), t).err = Nil

\* C2 as stated: on /api/auth/me Handler.Me runs only for a request whose
\* header reads "Bearer <token>" with a token ValidateToken accepts, and
\* every other request is answered 401 without Handler.Me running.
C2_OnlyValidBearerReachesMe ==
    resp.op = "me" =>
        /\ resp.invoked => Accepted(resp.header, now)
        /\ ~Accepted(resp.header, now) => resp.status = 401 /\ ~resp.invoked

\* C2 amended: as C2, except that an OPTIONS request is answered 200 by
\* CORSMiddleware before it reaches the gate; Handler.Me does not run for it
\* either.
C2_OnlyValidBearerReachesMeExceptPreflight ==
    resp.op = "me" =>
        /\ resp.invoked => Accepted(resp.header, now) /\ resp.method # "OPTIONS"
        /\ (~Accepted(resp.header, now) /\ resp.method # "OPTIONS")
              => resp.status = 401 /\ ~resp.invoked
        /\ resp.method = "OPTIONS" => resp.status = 200 /\ ~resp.invoked

\* Handler.Me ran for a request with an accepted token, and answered 200.
C2_Witness ==
    resp.op = "me" /\ resp.invoked /\ resp.status = 200

\* C3: once a Register for an e-mail has succeeded, a later Register with
\* that e-mail and any non-empty password fails with ErrUserAlreadyExists,
\* is answered 409 without a token, and leaves the table as it was.
C3_LaterRegisterConflicts ==
    (/\ RegisterCall
     /\ NonEmpty(resp.payload)
     /\ resp.payload.Email \in EmailsOf(resp.users0))
    => /\ resp.err = ErrUserAlreadyExists
       /\ resp.status = 409
       /\ "token" \notin DOMAIN resp.body
       /\ issued = resp.issued0
       /\ users = resp.users0

\* The request passes Register's validation and its hashing, so that the
\* call goes on to Create.
ReachesCreate(payload) ==
    NonEmpty(payload) /\ \A salt \in Salts : Hash(payload.Password, salt).err = Nil

C5_LoginIffRegisteredPassword ==
    (LoginCall /\ NonEmpty(resp.payload)) =>
        /\ resp.err = Nil
              <=> RegisteredWith(resp.payload.Email, resp.payload.Password)
        /\ resp.err = Nil =>
              /\ resp.status = 200
              /\ resp.body.token.kind = "jwt"
              /\ \E s \in succ :
                    resp.body.user = [id |-> s.id, email |-> s.email]

\* The user IDs the store can hand out, and 0.
UserIDs == 0..Cardinality(Emails)

\* The response being sent carries a token: a 201 of register or a 200 of
\* login.
TokenResponse ==
    resp.op \in {"register", "login"} /\ resp.invoked /\ resp.err = Nil

\* C6: for every user ID and e-mail, ValidateToken applied at the instant of
\* issuance to the result of GenerateToken succeeds and returns claims with
\* that user ID and that e-mail; so does ValidateToken applied to the token
\* of the response being sent.
C6_ValidateAfterGenerate ==
    /\ \A uid \in UserIDs, e \in Emails :
          LET v == ValidateToken(<<GenerateToken(uid, e, now)>>, now)
          IN  v.err = Nil /\ v.claims.UserID = uid /\ v.claims.Email = e
    /\ TokenResponse =>
          LET v == ValidateToken(<<resp.body.token>>, now)
          IN  /\ v.err = Nil
              /\ v.claims.UserID = resp.body.user.id
              /\ v.claims.Email = resp.body.user.email

\* A token was issued in the middle of a second, where NewNumericDate
\* truncates, and validates at once.
C6_Witness ==
    /\ TokenResponse
    /\ now % TicksPerSecond # 0
    /\ ValidateToken(<<resp.body.token>>, now).err = Nil

\* The tokens handed out, the one of the response being sent included.
HandedOut ==
    issued \cup (IF TokenResponse THEN {resp.body.token} ELSE {})

\* C7: every issued token has ExpiresAt = IssuedAt + Duration; at every
\* instant from ExpiresAt on ValidateToken fails on it and GET /api/auth/me
\* with it is answered 401 without Handler.Me running.  The clock only moves
\* forward, so a token that is refused once is refused from then on.
C7_IssuedTokensExpire ==
    /\ \A tk \in HandedOut :
          /\ tk.claims.ExpiresAt = tk.claims.IssuedAt + Duration
          /\ \A t \in TimePoints \cup {now} :
                t >= tk.claims.IssuedAt + Duration =>
                    /\ ValidateToken(<<tk>>, t).err = ErrTokenExpired
                    /\ ServeMe(users, "GET", Bearer(<<tk>>), t, NoFault).status = 401
                    /\ ~ServeMe(users, "GET", Bearer(<<tk>>), t, NoFault).invoked
    /\ \A tk \in issued :
          (/\ resp.op = "me"
           /\ resp.header = Bearer(<<tk>>)
           /\ now >= tk.claims.IssuedAt + Duration)
          => resp.status = 401 /\ ~resp.invoked

\* An issued token was presented once its lifetime had elapsed, and the
\* request was answered 401.
C7_Witness ==
    /\ resp.op = "me"
    /\ resp.status = 401
    /\ \E tk \in issued :
          resp.header = Bearer(<<tk>>) /\ now >= tk.claims.IssuedAt + Duration

\* The token was not signed with SecretKey, or names a signing method that
\* is not one of HMAC.
Foreign(tk) == tk.sig.key # SecretKey \/ tk.alg \notin HMACAlgs

\* C8: ValidateToken fails, at every instant, on every token that was not
\* signed with SecretKey or whose signing method is not of the HMAC family,
\* whatever its claims; a request to /api/auth/me that carries such a token
\* never reaches Handler.Me, and is answered 401 by the gate.
C8_ForeignTokensRejected ==
    /\ \A tk \in {x \in {WrongKeyToken, NoneToken, RSAToken} : Foreign(x)} :
          /\ ValidateToken(<<tk>>, now).err # Nil
          /\ ~AuthMiddleware(Bearer(<<tk>>), now).pass
          /\ AuthMiddleware(Bearer(<<tk>>), now).resp.status = 401
    /\ (/\ resp.op = "me"
        /\ HasBearerShape(resp.header)
        /\ Len(resp.header) = 3
        /\ resp.header[3].kind = "jwt"
        /\ Foreign(resp.header[3]))
       => resp.status = 401 /\ ~resp.invoked

\* A token with alg "none", and one signed with another key, were presented
\* in a well-formed header and refused.
C8_Witness ==
    /\ resp.op = "me"
    /\ resp.header \in {Bearer(<<NoneToken>>), Bearer(<<WrongKeyToken>>)}
    /\ resp.validated
    /\ resp.status = 401

\* C9: the gate's answers to a request without Authorization header, to one
\* with a malformed header and to one with an invalid or expired token have
\* the same status and the same body.
C9_GateFailuresUniform ==
    (resp.op = "me" /\ ~resp.invoked /\ resp.method # "OPTIONS")
    => /\ resp.status = AuthMiddleware(<< >>, now).resp.status
       /\ resp.body = AuthMiddleware(<< >>, now).resp.body

\* The answer of the login endpoint to ErrInvalidCredentials.
LoginInvalidCredentials ==
    HandlerLogin({}, "POST", [Email |-> "", Password |-> << >>], 0, NoFault)

\* C10: each domain error is answered with one status and one fixed message
\* on every endpoint that produces it: ErrInvalidCredentials as the login
\* endpoint answers it, ErrUserAlreadyExists with 409, a refusal for lack of
\* authorization with 401 and one message, ErrUserNotFound with 404 and
\* one message.
C10_OneStatusAndMessagePerError ==
    /\ (resp.op \in {"register", "login"} /\ resp.invoked
          /\ resp.err = ErrInvalidCredentials)
       => /\ resp.status = LoginInvalidCredentials.status
          /\ resp.body = LoginInvalidCredentials.body
    /\ (resp.op = "register" /\ resp.invoked /\ resp.err = ErrUserAlreadyExists)
       => resp.status = 409
    /\ (resp.op = "me" /\ resp.status = 401)
       => resp.body = HandlerMe(users, "GET", << >>, NoFault).body
    /\ (resp.op = "me" /\ resp.status = 404)
       => resp.body = [error |-> "User not found"]

DomainErrors == {ErrInvalidCredentials, ErrUserAlreadyExists, ErrUserNotFound}

\* The errors PasswordService.Verify returns.
VerifyErrors == {ErrMismatchedHashAndPassword, ErrHashTooShort}

\* The error the hasher, the store or the token service returned to
\* AuthUseCase.Register for the request req, Nil if none of them did.
RegisterComponentError(table, req, fault) ==
    IF ~NonEmpty(req) THEN Nil
    ELSE LET salt == IF fault = "rand" THEN NoSalt ELSE CHOOSE x \in Salts : TRUE
             h == Hash(req.Password, salt)
             c == Create(table, req.Email, h.hash, fault)
         IN  IF h.err # Nil THEN h.err
             ELSE IF c.err # Nil THEN c.err
             ELSE IssueToken(c.user.ID, c.user.Email, 0, fault).err

\* The same for AuthUseCase.Login.
LoginComponentError(table, req, fault) ==
    IF ~NonEmpty(req) THEN Nil
    ELSE LET f == FindByEmail(table, req.Email, fault)
         IN  IF f.err # Nil THEN f.err
             ELSE IF Verify(f.user.PasswordHash, req.Password) # Nil
             THEN Verify(f.user.PasswordHash, req.Password)
             ELSE IssueToken(f.user.ID, f.user.Email, 0, fault).err

\* The same for Handler.Me, which runs with the context the gate made.
MeComponentError(table, header, t, fault) ==
    LET a == AuthMiddleware(header, t)
    IN  IF ~a.pass THEN Nil ELSE FindByID(table, a.ctx.userID, fault).err

\* The error a component returned while the request of the response being
\* sent was served.
ComponentError ==
    CASE resp.op = "register" /\ resp.invoked ->
            RegisterComponentError(resp.users0, resp.payload, resp.fault)
      [] resp.op = "login" /\ resp.invoked ->
            LoginComponentError(resp.users0, resp.payload, resp.fault)
      [] resp.op = "me" /\ resp.invoked /\ resp.method = "GET" ->
            MeComponentError(resp.users0, resp.header, now, resp.fault)
      [] OTHER -> Nil

InternalServerError == RespondWithError(500, "Internal server error")

\* C11 as stated: whenever the hasher, the token service or the store
\* returns an error that is not a domain error, the handler answers 500
\* with the body 'Internal server error'.
C11_ComponentErrorsAnswered500 ==
    ComponentError \notin DomainErrors \cup {Nil} =>
        /\ resp.status = InternalServerError.status
        /\ resp.body = InternalServerError.body

\* C11 amended: as C11 for every error but those of Verify; Login turns
\* every error of Verify, the mismatch included, into ErrInvalidCredentials,
\* which is answered 401.  A message that carries the text of an error
\* carries that of a domain error.
C11_ComponentErrorsAnswered500ExceptVerify ==
    /\ (ComponentError \notin DomainErrors \cup {Nil}
          /\ ~(resp.op = "login" /\ ComponentError \in VerifyErrors)) =>
            /\ resp.status = InternalServerError.status
            /\ resp.body = InternalServerError.body
    /\ (resp.op = "login" /\ ComponentError \in VerifyErrors) =>
            /\ resp.err = ErrInvalidCredentials
            /\ resp.status = 401
            /\ resp.body = [error |-> "Invalid email or password"]
    /\ (resp.op = "register" /\ resp.invoked /\ resp.status \in {400, 409}) =>
            /\ resp.body.error = ErrorText(resp.err)
            /\ resp.err \in DomainErrors
    /\ resp.status = 500 => resp.body = InternalServerError.body

\* A login whose token could not be signed was answered 500.
C11_Witness ==
    /\ resp.op = "login"
    /\ resp.fault = "sign"
    /\ ComponentError = ErrSigning
    /\ resp.status = 500

\* C12: a Register or a Login whose e-mail or password is empty returns
\* ErrInvalidCredentials whatever the other field holds and whatever
\* component would fail if it were called; the table is left as it was and
\* no token is issued.
C12_EmptyFieldRejectedFirst ==
    (/\ resp.op \in {"register", "login"}
     /\ resp.invoked
     /\ ~NonEmpty(resp.payload))
    => /\ resp.err = ErrInvalidCredentials
       /\ resp.status = IF resp.op = "register" THEN 400 ELSE 401
       /\ DOMAIN resp.body = {"error"}
       /\ users = resp.users0
       /\ issued = resp.issued0

\* A Register with an empty e-mail and a password bcrypt refuses, sent for
\* a database that fails, was rejected with ErrInvalidCredentials.
C12_Witness ==
    /\ resp.op = "register"
    /\ resp.invoked
    /\ resp.payload.Email = ""
    /\ resp.payload.Password = PwOver
    /\ resp.fault = "exec"
    /\ resp.err = ErrInvalidCredentials

\* C13: a Register that succeeds adds exactly one row, with the e-mail of
\* the request and an ID no other row holds (ID 1 in an empty table), and
\* is answered 201 with that ID and e-mail and a token whose claims carry
\* that ID and that e-mail.
C13_RegisterAddsOneUser ==
    (RegisterCall /\ resp.err = Nil) =>
        \E u \in users :
            /\ u \notin resp.users0
            /\ users = resp.users0 \cup {u}
            /\ u.Email = resp.payload.Email
            /\ \A v \in resp.users0 : v.ID # u.ID /\ v.Email # u.Email
            /\ resp.users0 = {} => u.ID = 1
            /\ resp.status = 201
            /\ resp.body.user = [id |-> u.ID, email |-> u.Email]
            /\ resp.body.token.kind = "jwt"
            /\ resp.body.token.claims.UserID = u.ID
            /\ resp.body.token.claims.Email = u.Email

\* A second user was registered.
C13_Witness ==
    /\ RegisterCall
    /\ resp.err = Nil
    /\ resp.users0 # {}
    /\ Cardinality(users) = Cardinality(resp.users0) + 1

\* The token string of a header that reads "Bearer <token>".
TokenOf(h) == SubSeq(h, 3, Len(h))

\* C14: when Handler.Me runs, the request context holds exactly the UserID
\* and the Email of the claims ValidateToken returned for the token of the
\* header; a 200 carries the stored user whose ID is that UserID, and for a
\* token this service issued also the e-mail of its claims: never the
\* identity of another user.
C14_MeAnswersTheTokensUser ==
    (resp.op = "me" /\ resp.invoked) =>
        LET v == ValidateToken(TokenOf(resp.header), now)
        IN  /\ HasBearerShape(resp.header)
            /\ v.err = Nil
            /\ resp.ctx = [userID |-> v.claims.UserID, email |-> v.claims.Email]
            /\ resp.status = 200 =>
                  /\ resp.body.id = v.claims.UserID
                  /\ \E u \in users :
                        u.ID = v.claims.UserID
                          /\ resp.body = [id |-> u.ID, email |-> u.Email]
            /\ (resp.status = 200 /\ resp.header[3] \in issued) =>
                  resp.body.email = v.claims.Email

\* With two users stored, the token of the first one was answered with the
\* first user.
C14_Witness ==
    /\ resp.op = "me"
    /\ resp.invoked
    /\ resp.status = 200
    /\ Cardinality(users) = 2
    /\ resp.header[3] \in issued
    /\ resp.body.id = 1

\* C15: every token Register or Login handed out names a stored user, by
\* ID and by e-mail; all tokens handed out for one e-mail carry one UserID;
\* and GET /api/auth/me with such a token, while it has not expired, is
\* answered 200 with that ID and e-mail, whatever was done in between.
C15_IssuedTokensNameStoredUsers ==
    /\ \A tk \in HandedOut :
          /\ \E u \in users :
                u.ID = tk.claims.UserID /\ u.Email = tk.claims.Email
          /\ \A other \in HandedOut :
                other.claims.Email = tk.claims.Email
                    => other.claims.UserID = tk.claims.UserID
          /\ now < tk.claims.ExpiresAt =>
                LET r == ServeMe(users, "GET", Bearer(<<tk>>), now, NoFault)
                IN  /\ r.status = 200
                    /\ r.body = [id |-> tk.claims.UserID,
                                 email |-> tk.claims.Email]
    /\ TokenResponse => resp.body.token.claims.Email = resp.payload.Email
    /\ \A tk \in issued :
          (/\ resp.op = "me"
           /\ resp.method = "GET"
           /\ resp.header = Bearer(<<tk>>)
           /\ now < tk.claims.ExpiresAt)
          => /\ resp.status = 200
             /\ resp.body = [id |-> tk.claims.UserID, email |-> tk.claims.Email]

\* Two different tokens were handed out for one e-mail, a second user was
\* registered, and a request with one of the tokens was answered 200.
C15_Witness ==
    /\ resp.op = "me"
    /\ resp.invoked
    /\ resp.status = 200
    /\ Cardinality(users) = 2
    /\ Cardinality(issued) = 2
    /\ \A tk \in issued : tk.claims.Email = resp.body.email

\* C16: a token handed out is accepted by ValidateToken, and passes the
\* gate, at the present instant and at every later one before its
\* ExpiresAt, in every reachable state: whatever Register, Login and
\* /api/auth/me calls were served since, and whatever newer tokens were
\* handed out.
C16_TokensValidUntilExpiry ==
    /\ \A tk \in HandedOut :
          \A t \in {x \in TimePoints \cup {now} : x >= now} :
              t < tk.claims.ExpiresAt =>
                  /\ ValidateToken(<<tk>>, t).err = Nil
                  /\ AuthMiddleware(Bearer(<<tk>>), t).pass
    /\ \A tk \in issued :
          (/\ resp.op = "me"
           /\ resp.method # "OPTIONS"
           /\ resp.header = Bearer(<<tk>>)
           /\ now < tk.claims.ExpiresAt)
          => resp.validated /\ resp.invoked

\* A request with the older of two tokens of one user, both unexpired,
\* reached Handler.Me.
C16_Witness ==
    /\ resp.op = "me"
    /\ resp.invoked
    /\ \E old \in issued, new \in issued :
          /\ resp.header = Bearer(<<old>>)
          /\ new.claims.UserID = old.claims.UserID
          /\ new.claims.IssuedAt > old.claims.IssuedAt
          /\ now < old.claims.ExpiresAt

\* No two rows share an ID and no two rows share an e-mail.
DistinctUsers ==
    \A u \in users, v \in users : (u.ID = v.ID \/ u.Email = v.Email) => u = v

\* C17: in every reachable state the rows have pairwise distinct IDs and
\* pairwise distinct e-mails, and every step keeps every row with its ID and
\* its e-mail, so that no ID passes to another user: also while Register
\* calls are interleaved and while some of them fail.
C17_UsersDistinctAndImmutable ==
    /\ []DistinctUsers
    /\ [][\A u \in users :
             \E v \in users' : v.ID = u.ID /\ v.Email = u.Email]_vars

\* Two Register calls for different e-mails have both inserted their row
\* and neither has returned.
C17_Witness ==
    /\ Cardinality(users) = 2
    /\ \A c \in Clients : reg[c].pc = "created"

\* C18: every stored PasswordHash is an output of Hash, of the password the
\* user registered with, at DefaultCost and with one of the salts, and so
\* is not a plaintext; Login and the requests to /api/auth/me leave the
\* table as it is.
C18_OnlyHashesStored ==
    /\ \A u \in users :
          /\ IsBcryptHash(u.PasswordHash)
          /\ u.PasswordHash.cost = DefaultCost
          /\ \E s \in succ :
                /\ s.id = u.ID
                /\ \E salt \in Salts :
                      u.PasswordHash = Hash(s.password, salt).hash
    /\ resp.op \in {"login", "me"} => users = resp.users0

\* A login with a password that is not the stored user's was refused, and
\* left the table as it was.
C18_Witness ==
    /\ LoginCall
    /\ NonEmpty(resp.payload)
    /\ \E u \in users : u.Email = resp.payload.Email
    /\ resp.err = ErrInvalidCredentials
    /\ users = resp.users0

\* C19: the 201 of register and the 200 of login carry a token and a user
\* made of ID and e-mail, the 200 of /api/auth/me a user made of ID and
\* e-mail, and the token's claims are UserID, Email, Issuer, IssuedAt and
\* ExpiresAt: the PasswordHash of the row is in none of them.
C19_NoHashInResponses ==
    /\ TokenResponse =>
          /\ DOMAIN resp.body = {"token", "user"}
          /\ DOMAIN resp.body.user = {"id", "email"}
          /\ DOMAIN resp.body.token = {"kind", "alg", "claims", "sig"}
          /\ DOMAIN resp.body.token.claims =
                {"UserID", "Email", "Issuer", "IssuedAt", "ExpiresAt"}
          /\ resp.body.token.sig.claims = resp.body.token.claims
    /\ (resp.op = "me" /\ resp.invoked /\ resp.status = 200) =>
          DOMAIN resp.body = {"id", "email"}

\* A login of a stored user, who has a PasswordHash, was answered 200.
C19_Witness ==
    /\ LoginCall
    /\ resp.status = 200
    /\ \E u \in users :
          u.ID = resp.body.user.id /\ IsBcryptHash(u.PasswordHash)

\* C20: the hash Register stored for a password p, which is Hash(p),
\* verifies against p, and against no password different from p.
C20_VerifyExactlyTheHashedPassword ==
    \A u \in users : \A s \in succ :
        s.id = u.ID =>
            /\ Verify(u.PasswordHash, s.password) = Nil
            /\ \A p2 \in Passwords :
                  p2 # s.password => Verify(u.PasswordHash, p2) # Nil

\* C21: Hash succeeds for the empty password and for the password of every
\* Register call, whatever its length, so that a Register call with a
\* non-empty e-mail and password, served while the entropy source works,
\* fails for no other reason than the e-mail being taken.
C21_HashAcceptsEveryLength ==
    (RegisterCall /\ NonEmpty(resp.payload)) =>
        /\ \A salt \in Salts :
              /\ Hash(<< >>, salt).err = Nil
              /\ Hash(resp.payload.Password, salt).err = Nil
        /\ resp.err \in {Nil, ErrUserAlreadyExists}

\* C22: GetUserByID(id) is the result of FindByID(id): the stored user with
\* that ID when there is one, ErrUserNotFound when there is none; the ID a
\* successful Register returned resolves to the registered e-mail; and
\* /api/auth/me answers 404 exactly when no user has the ID of the token,
\* and 200 with the stored ID and e-mail otherwise.
C22_GetUserByIDIsFindByID ==
    /\ \A id \in UserIDs :
          /\ GetUserByID(users, id, NoFault) = FindByID(users, id, NoFault)
          /\ \A u \in users :
                u.ID = id => GetUserByID(users, id, NoFault) = [err |-> Nil, user |-> u]
          /\ (\A u \in users : u.ID # id)
                => GetUserByID(users, id, NoFault).err = ErrUserNotFound
    /\ \A s \in succ :
          /\ GetUserByID(users, s.id, NoFault).err = Nil
          /\ GetUserByID(users, s.id, NoFault).user.Email = s.email
    /\ (resp.op = "me" /\ resp.invoked /\ resp.method = "GET") =>
          /\ resp.status = 404 <=> \A u \in users : u.ID # resp.ctx.userID
          /\ resp.status = 404 => resp.body = [error |-> "User not found"]
          /\ resp.status # 404 =>
                /\ resp.status = 200
                /\ \E u \in users : /\ u.ID = resp.ctx.userID
                                    /\ resp.body = [id |-> u.ID, email |-> u.Email]

\* /api/auth/me was asked with a valid token whose user ID no user has.
C22_Witness ==
    /\ resp.op = "me"
    /\ resp.invoked
    /\ resp.status = 404
    /\ GetUserByID(users, resp.ctx.userID, NoFault).err = ErrUserNotFound

\* The errors of ValidateToken: a malformed token, a wrong algorithm, a bad
\* signature, expiry.
ValidateTokenErrors ==
    {ErrTokenMalformed, ErrTokenUnverifiable, ErrTokenSignatureInvalid,
     ErrTokenExpired}

\* C23: when the gate has handed the token of a "Bearer <token>" header to
\* ValidateToken and ValidateToken failed, the response is 401 "Invalid or
\* expired token", and it is the response the gate gives at that moment to
\* every other "Bearer <token>" header whose token fails, for whatever
\* reason.
C23_ValidationFailuresAlike ==
    (resp.op = "me" /\ resp.validated /\ ~resp.invoked) =>
        /\ ValidateToken(TokenOf(resp.header), now).err \in ValidateTokenErrors
        /\ resp.status = 401
        /\ resp.body = [error |-> "Invalid or expired token"]
        /\ \A h \in BearerHeaders(issued) :
              ValidateToken(TokenOf(h), now).err # Nil =>
                  /\ AuthMiddleware(h, now).resp.status = resp.status
                  /\ AuthMiddleware(h, now).resp.body = resp.body

\* An expired token was refused while tokens failing for each of the other
\* reasons could be sent too.
C23_Witness ==
    /\ resp.op = "me"
    /\ resp.validated
    /\ ~resp.invoked
    /\ ValidateToken(TokenOf(resp.header), now).err = ErrTokenExpired
    /\ ValidateTokenErrors
          \subseteq {ValidateToken(TokenOf(h), now).err : h \in BearerHeaders(issued)}

\* C24: on a request that reaches the gate, ValidateToken is called exactly
\* when the header is not empty and reads "Bearer", one space and a token
\* without a space; every other non-empty header (another scheme, "bearer"
\* in lower case, no space, two spaces) is answered 401 "Invalid
\* authorization header format" without ValidateToken being called; and
\* "Bearer " with an empty token is handed to ValidateToken and answered 401
\* "Invalid or expired token".
C24_OnlyBearerShapeIsValidated ==
    /\ (resp.op = "me" /\ resp.method # "OPTIONS") =>
          /\ resp.validated <=> HasBearerShape(resp.header)
          /\ (resp.header # << >> /\ ~HasBearerShape(resp.header)) =>
                /\ resp.status = 401
                /\ resp.body = [error |-> "Invalid authorization header format"]
                /\ ~resp.invoked
          /\ resp.header = Bearer(<< >>) =>
                /\ resp.validated
                /\ resp.status = 401
                /\ resp.body = [error |-> "Invalid or expired token"]
    /\ \A h \in MalformedHeaders(issued) :
          /\ ~AuthMiddleware(h, now).validated
          /\ AuthMiddleware(h, now).resp =
                RespondWithError(401, "Invalid authorization header format")

\* A header "bearer <token>" in lower case, with a token that is valid, was
\* refused without ValidateToken being called.
C24_Witness ==
    /\ resp.op = "me"
    /\ resp.method = "GET"
    /\ Len(resp.header) = 3
    /\ resp.header[1] = Word("bearer")
    /\ ValidateToken(TokenOf(resp.header), now).err = Nil
    /\ resp.status = 401
    /\ ~resp.validated

\* The Register call being answered reached Create, and Create succeeded.
CreateSucceeded ==
    /\ RegisterCall
    /\ \E salt \in Salts :
          LET h == RegisterHash(resp.payload, salt, resp.fault)
          IN  /\ h.err = Nil
              /\ Create(resp.users0, resp.payload.Email, h.hash, resp.fault).err = Nil

\* C25: a request to register adds one user with the request's e-mail
\* exactly when Create succeeded; a failure of the validation, of the
\* hashing or of Create leaves the table as it was; when the token cannot be
\* issued after Create, Register returns that error, the user stays stored,
\* and a further Register with the same e-mail gives ErrUserAlreadyExists.
C25_UserStoredIffCreateSucceeded ==
    resp.op = "register" =>
        /\ CreateSucceeded =>
              \E u \in users : /\ u \notin resp.users0
                               /\ u.Email = resp.payload.Email
                               /\ users = resp.users0 \cup {u}
        /\ ~CreateSucceeded => users = resp.users0
        /\ (resp.invoked /\ resp.err \in {ErrInvalidCredentials, ErrPasswordTooLong,
                                          ErrRandRead, ErrDatabase,
                                          ErrUserAlreadyExists})
              => ~CreateSucceeded
        /\ (CreateSucceeded /\ resp.fault = "sign") =>
              /\ resp.err = ErrSigning
              /\ resp.status = 500
              /\ \A salt \in Salts, fault \in {NoFault, "sign"} :
                    Register(users, resp.payload, salt, now, fault).err
                        = ErrUserAlreadyExists
        /\ (CreateSucceeded /\ resp.fault # "sign") => resp.err = Nil
        /\ (resp.invoked /\ NonEmpty(resp.payload)
               /\ Len(resp.payload.Password) <= BcryptMaxLen
               /\ resp.fault \in {NoFault, "sign"}
               /\ resp.payload.Email \in EmailsOf(resp.users0))
              => resp.err = ErrUserAlreadyExists /\ resp.status = 409

\* A Register was answered ErrUserAlreadyExists for an e-mail that no
\* Register call has returned success for: the user was stored by a call whose
\* token issuance failed.
C25_Witness ==
    /\ RegisterCall
    /\ resp.err = ErrUserAlreadyExists
    /\ resp.payload.Email \in EmailsOf(users)
    /\ \A s \in succ : s.email # resp.payload.Email

\* C26: no step removes or changes a stored user; the table changes only in
\* a step that answers a call of Register, by the insertion of one user; a
\* step that answers a login or a request to /api/auth/me (the gate,
\* ValidateToken, GetUserByID), successful or not, leaves the table as it
\* was.
C26_StoreChangesOnlyByRegister ==
    [][/\ users \subseteq users'
       /\ users' # users =>
             /\ resp'.op = "register"
             /\ resp'.invoked
             /\ Cardinality(users' \ users) = 1
       /\ resp'.op \in {"login", "me"} => users' = users]_vars

\* A request to /api/auth/me passed the gate and failed in GetUserByID while
\* users were stored.
C26_Witness ==
    /\ resp.op = "me"
    /\ resp.invoked
    /\ resp.fault = "query"
    /\ resp.status = 500
    /\ users # {}
    /\ users = resp.users0

\* The issuers a token may name: the service's own and others.
Issuers == {Issuer, "other-service", ""}

\* The token tk as a JWTService with the same secret key and the issuer
\* issuer makes it.
IssuedBy(tk, issuer) ==
    LET claims == [tk.claims EXCEPT !.Issuer = issuer]
    IN  [tk EXCEPT !.claims = claims,
                   !.sig = HMACSign(tk.alg, SecretKey, claims)]

\* C27: ValidateToken accepts an unexpired token signed with the secret key
\* by an HMAC method whatever issuer it names, and returns its claims; the
\* token of another service that holds the same key passes the gate of
\* /api/auth/me.
C27_IssuerNotChecked ==
    /\ \A tk \in issued \cup {SameKeyToken} : \A issuer \in Issuers :
          now < tk.claims.ExpiresAt =>
              /\ ValidateToken(<<IssuedBy(tk, issuer)>>, now).err = Nil
              /\ ValidateToken(<<IssuedBy(tk, issuer)>>, now).claims.Issuer = issuer
              /\ ValidateToken(<<IssuedBy(tk, issuer)>>, now).claims.UserID
                    = tk.claims.UserID
    /\ (resp.op = "me" /\ resp.method = "GET"
           /\ resp.header = Bearer(<<SameKeyToken>>)) =>
          /\ resp.invoked
          /\ resp.status \in {200, 404}
          /\ resp.ctx.userID = SameKeyToken.claims.UserID

\* The token of another service with the same key was answered 200.
C27_Witness ==
    /\ resp.op = "me"
    /\ resp.header = Bearer(<<SameKeyToken>>)
    /\ SameKeyToken.claims.Issuer # Issuer
    /\ resp.invoked
    /\ resp.status = 200

\* The system with its Register calls interleaved.
SpecConcurrent == Init /\ [][NextConcurrent]_vars

====
